---- MODULE Spec2Model ----
(***************************************************************************)
(* Model of the tile inspection scripts of activetripme/tilemaker:         *)
(*   check_mbtiles.py        archive lookup, envelope, locator, 3x3 scan   *)
(*   inspect_tile_http.py    HTTP fetch, envelope, decode, report          *)
(*   test_vtzero_negative.py negative-coordinate probe                     *)
(* Byte strings are sequences of naturals.  The two library calls the      *)
(* scripts make (gzip.decompress, mapbox_vector_tile.decode) are modelled  *)
(* on a reduced wire format that keeps what the scripts depend on: a       *)
(* two-byte magic prefix with a length trailer that decompression checks,  *)
(* and a tag/length layer framing with zigzag coordinates that decode may  *)
(* reject.                                                                 *)
(***************************************************************************)
EXTENDS Integers, Sequences, FiniteSets, TLC

\* ------------------------------------------------------------------ bounds
\* Largest zoom of the addressing runs (SpecAddr).
MaxZoom == 3
\* Largest number of rows a populated archive holds (Spec).
MaxPresent == 2
\* Largest number of URLs handed to compare_tiles.
MaxUrls == 2

\* ------------------------------------------------------------ byte strings
\* Python slice b[:n]: the first n bytes, fewer when b is shorter.
Prefix(b, n) == SubSeq(b, 1, IF Len(b) < n THEN Len(b) ELSE n)

\* Python slice b[n:]
Suffix(b, n) == SubSeq(b, n + 1, Len(b))

\* 1 << n for n >= 0 (Python raises ValueError for n < 0, see ShiftRaises)
RECURSIVE Shl1(_)
Shl1(n) == IF n <= 0 THEN 1 ELSE 2 * Shl1(n - 1)

ShiftRaises(n) == n < 0

EmptyMap == [k \in {} |-> {}]

\* Mutant of Put: the mapping is replaced by the single new entry.
Put_Single(f, k, v) == [kk \in {k} |-> v]

Put(f, k, v) == [kk \in (DOMAIN f) \cup {k} |-> IF kk = k THEN v ELSE f[kk]]

\* ------------------------------------------------------------------- gzip
GzipMagic == <<31, 139>>

\* gzip.compress, the producer side of the envelope: magic, the payload
\* stored, and the ISIZE trailer (payload length) that decompression checks.
GzipCompress(p) == GzipMagic \o p \o <<Len(p)>>

\* gzip.decompress: [ok, data].  ok = FALSE stands for the exception it
\* raises (BadGzipFile / EOFError / zlib.error) on a bad or truncated stream.
GzipDecompress(b) ==
    IF Len(b) >= 3 /\ Prefix(b, 2) = GzipMagic /\ b[Len(b)] = Len(b) - 3
    THEN [ok |-> TRUE, data |-> SubSeq(b, 3, Len(b) - 1)]
    ELSE [ok |-> FALSE, data |-> <<>>]

\* -------------------------------------------------------------- MVT codec
\* Tag byte of a layer message (field 3, wire type 2).
LayerTag == 26

LayerNames == <<"poi", "place", "road">>

GeomName(t) ==
    CASE t = 1 -> "Point"
      [] t = 2 -> "LineString"
      [] t = 3 -> "Polygon"
      [] OTHER -> "Unknown"

ZigZag(n) == IF n >= 0 THEN 2 * n ELSE -2 * n - 1

UnZigZag(b) == IF b % 2 = 0 THEN b \div 2 ELSE -((b + 1) \div 2)

\* A decoded feature, as the dict decode() returns: has_id = FALSE is a
\* feature without an id (feat.get('id') is None).  coordinates is the flat
\* coordinate stream; the reduced format carries one vertex per feature.
Feature(has_id, id, type, cx, cy) ==
    [has_id |-> has_id, id |-> id, type |-> type,
     coordinates |-> <<cx, cy>>]

\* Producer side: one feature is four bytes (id, 0 for none; geometry type;
\* zigzag x; zigzag y); one layer is tag, length, name index, features.
EncodeFeature(has_id, id, t, cx, cy) ==
    <<IF has_id THEN id ELSE 0, t, ZigZag(cx), ZigZag(cy)>>

EncodeLayer(name_ix, feature_bytes) ==
    <<LayerTag, 1 + Len(feature_bytes), name_ix>> \o feature_bytes

RECURSIVE DecodeFeatures(_)
DecodeFeatures(b) ==
    IF Len(b) = 0 THEN <<>>
    ELSE <<Feature(b[1] # 0, b[1], GeomName(b[2]), UnZigZag(b[3]), UnZigZag(b[4]))>>
         \o DecodeFeatures(Suffix(b, 4))

\* dict assignment tile[name] = layer: a repeated name replaces the value
\* and keeps its place.
SetLayer(layers, name, features) ==
    IF \E i \in 1..Len(layers) : layers[i].name = name
    THEN [i \in 1..Len(layers) |->
             IF layers[i].name = name
             THEN [name |-> name, features |-> features] ELSE layers[i]]
    ELSE Append(layers, [name |-> name, features |-> features])

\* mapbox_vector_tile.decode: [ok, layers], layers in payload order with
\* unique names.  ok = FALSE stands for the DecodeError it raises.  A
\* zero-length payload decodes to the empty mapping.
RECURSIVE DecodeFrom(_, _)
DecodeFrom(b, acc) ==
    IF Len(b) = 0 THEN [ok |-> TRUE, layers |-> acc]
    ELSE IF \/ b[1] # LayerTag
            \/ Len(b) < 3
            \/ Len(b) < 2 + b[2]
            \/ b[2] < 1
            \/ (b[2] - 1) % 4 # 0
            \/ b[3] \notin 1..Len(LayerNames)
         THEN [ok |-> FALSE, layers |-> <<>>]
         ELSE DecodeFrom(Suffix(b, 2 + b[2]),
                         SetLayer(acc, LayerNames[b[3]],
                                  DecodeFeatures(SubSeq(b, 4, 2 + b[2]))))

decode(b) == DecodeFrom(b, <<>>)

\* `ln in tile` and tile[ln]
HasLayer(tile, ln) == \E i \in 1..Len(tile) : tile[i].name = ln

LayerOf(tile, ln) == tile[CHOOSE i \in 1..Len(tile) : tile[i].name = ln]

\* list(tile.keys())
Keys(tile) == [i \in 1..Len(tile) |-> tile[i].name]

\* ------------------------------------------------------- check_mbtiles.py
\* mapbox_vector_tile is importable (the import guard of the script).
HAS_MVT == TRUE

\* Python None where a string is expected (args.layer, layer_name).
NoneStr == "<None>"

\* Truthiness of an optional string: None and '' are falsy.
Truthy(s) == s # NoneStr /\ s # ""

\* Mutant of FlipY: the flip taken from 2^zoom instead of 2^zoom - 1.
FlipY_NoBorrow(zoom, y) == Shl1(zoom) - y

\* max_coord = (1 << zoom) - 1 ; flip_y = max_coord - y
FlipY(zoom, y) == (Shl1(zoom) - 1) - y

\* Mutant of UnwrapArchive: only the first magic byte is compared.
UnwrapArchive_OneByte(blob) ==
    IF Prefix(blob, 1) = <<31>>
    THEN GzipDecompress(blob)
    ELSE [ok |-> TRUE, data |-> blob]

\* The gzip check and decompression of read_tile_from_mbtiles:
\* [ok, data]; ok = FALSE when gzip.decompress raises.
UnwrapArchive(blob) ==
    IF Prefix(blob, 2) = GzipMagic
    THEN GzipDecompress(blob)
    ELSE [ok |-> TRUE, data |-> blob]

\* Mutant of read_tile_from_mbtiles: a missing row raises instead of
\* returning None.
read_tile_from_mbtiles_MissingRaises(store, rows, z, tx, ty) ==
    LET q == <<z, tx, FlipY(z, ty)>>
        blank == [status |-> "none", queried |-> FALSE, query |-> <<0, 0, 0>>,
                  raw |-> <<>>, data |-> <<>>]
    IN  IF ShiftRaises(z) THEN [blank EXCEPT !.status = "raise_shift"]
        ELSE IF ~store \/ q \notin DOMAIN rows
             THEN [blank EXCEPT !.status = "raise_store", !.queried = TRUE, !.query = q]
        ELSE LET u == UnwrapArchive(rows[q])
             IN  [status |-> IF u.ok THEN "data" ELSE "raise_gzip",
                  queried |-> TRUE, query |-> q, raw |-> rows[q], data |-> u.data]

\* read_tile_from_mbtiles(mbtiles_path, zoom, x, y):
\*   status "raise_shift"  1 << zoom raised ValueError, nothing queried
\*          "raise_store"  cursor.execute raised (the store is unreadable)
\*          "none"         no row, returns None
\*          "raise_gzip"   gzip.decompress raised
\*          "data"         returns tile_data
read_tile_from_mbtiles(store, rows, z, tx, ty) ==
    LET q == <<z, tx, FlipY(z, ty)>>
        blank == [status |-> "none", queried |-> FALSE, query |-> <<0, 0, 0>>,
                  raw |-> <<>>, data |-> <<>>]
    IN  IF ShiftRaises(z) THEN [blank EXCEPT !.status = "raise_shift"]
        ELSE IF ~store
             THEN [blank EXCEPT !.status = "raise_store", !.queried = TRUE, !.query = q]
        ELSE IF q \notin DOMAIN rows
             THEN [blank EXCEPT !.queried = TRUE, !.query = q]
        ELSE LET u == UnwrapArchive(rows[q])
             IN  [status |-> IF u.ok THEN "data" ELSE "raise_gzip",
                  queried |-> TRUE, query |-> q, raw |-> rows[q], data |-> u.data]

\* The condition under which a feature is appended to results[ln].
Appended(feat, ids) ==
    /\ feat.has_id
    /\ feat.id \in ids
    /\ feat.type = "Point"
    /\ Len(feat.coordinates) >= 2

\* for feat in features: ... results[ln].append((feat, coords))
RECURSIVE ScanFeatures(_, _, _)
ScanFeatures(features, ids, acc) ==
    IF features = <<>> THEN acc
    ELSE LET feat == Head(features)
         IN  ScanFeatures(Tail(features), ids,
                          IF Appended(feat, ids)
                          THEN Append(acc, <<feat, feat.coordinates>>)
                          ELSE acc)

\* for ln in layers_to_search: ...   (results is a defaultdict(list): a key
\* exists only once something was appended under it)
RECURSIVE ScanLayers(_, _, _, _)
ScanLayers(tile, todo, ids, res) ==
    IF todo = <<>> THEN res
    ELSE LET ln == Head(todo)
         IN  IF ~HasLayer(tile, ln) THEN ScanLayers(tile, Tail(todo), ids, res)
             ELSE LET found == ScanFeatures(LayerOf(tile, ln).features, ids,
                                            IF ln \in DOMAIN res THEN res[ln] ELSE <<>>)
                  IN  ScanLayers(tile, Tail(todo), ids,
                                 IF found = <<>> THEN res ELSE Put(res, ln, found))

\* Mutant of LayersToSearch: the filter is ignored.
LayersToSearch_All(tile, ln) == Keys(tile)

\* layers_to_search = [layer_name] if layer_name else tile.keys()
LayersToSearch(tile, ln) == IF Truthy(ln) THEN <<ln>> ELSE Keys(tile)

\* Mutant of find_targets_in_tile: the decode exception is swallowed without
\* the printed line.
find_targets_in_tile_Silent(data, ids, ln) ==
    LET t == decode(data)
    IN  [raised |-> FALSE, decode_error |-> FALSE,
         results |-> IF ~t.ok THEN EmptyMap
                     ELSE ScanLayers(t.layers, LayersToSearch(t.layers, ln),
                                     ids, EmptyMap)]

\* Mutant of find_targets_in_tile: the decode exception is not caught.
find_targets_in_tile_NoCatch(data, ids, ln) ==
    LET t == decode(data)
    IN  IF ~t.ok
        THEN [raised |-> TRUE, decode_error |-> TRUE, results |-> EmptyMap]
        ELSE [raised |-> FALSE, decode_error |-> FALSE,
              results |-> ScanLayers(t.layers, LayersToSearch(t.layers, ln),
                                     ids, EmptyMap)]

\* find_targets_in_tile(tile_data, target_ids, layer_name):
\* [raised, decode_error, results].  A decode exception is caught, printed
\* (decode_error) and {} returned; nothing is raised to the caller.
find_targets_in_tile(data, ids, ln) ==
    IF ~HAS_MVT THEN [raised |-> FALSE, decode_error |-> FALSE, results |-> EmptyMap]
    ELSE LET t == decode(data)
         IN  IF ~t.ok
             THEN [raised |-> FALSE, decode_error |-> TRUE, results |-> EmptyMap]
             ELSE [raised |-> FALSE, decode_error |-> FALSE,
                   results |-> ScanLayers(t.layers, LayersToSearch(t.layers, ln),
                                          ids, EmptyMap)]

Deltas == <<-1, 0, 1>>

\* Mutant of InRange: the lower bound of ny is not checked.
InRange_NoLower(zoom, nx, ny) ==
    /\ 0 <= nx /\ nx <= Shl1(zoom) - 1
    /\ ny <= Shl1(zoom) - 1

\* if 0 <= nx <= max_coord and 0 <= ny <= max_coord
InRange(zoom, nx, ny) ==
    /\ 0 <= nx /\ nx <= Shl1(zoom) - 1
    /\ 0 <= ny /\ ny <= Shl1(zoom) - 1

\* The two nested loops of get_neighbor_tiles, dy outer, dx inner; k counts
\* the iterations done.
RECURSIVE NeighborLoop(_, _, _, _, _)
NeighborLoop(zoom, cx, cy, k, acc) ==
    IF k >= Len(Deltas) * Len(Deltas) THEN acc
    ELSE LET dy == Deltas[(k \div Len(Deltas)) + 1]
             dx == Deltas[(k % Len(Deltas)) + 1]
             nx == cx + dx
             ny == cy + dy
         IN  NeighborLoop(zoom, cx, cy, k + 1,
                          IF InRange(zoom, nx, ny)
                          THEN Append(acc, <<zoom, nx, ny>>) ELSE acc)

\* Mutant of get_neighbor_tiles: the 8 neighbors without the center.
get_neighbor_tiles_NoCenter(zoom, cx, cy) ==
    SelectSeq(NeighborLoop(zoom, cx, cy, 0, <<>>), LAMBDA t : t # <<zoom, cx, cy>>)

\* get_neighbor_tiles(zoom, x, y); for zoom < 0 the shift raises instead.
get_neighbor_tiles(zoom, cx, cy) == NeighborLoop(zoom, cx, cy, 0, <<>>)

\* layer_name = None if args.all_layers else (args.layer or 'poi')
ResolveLayer(all, arg) ==
    IF all THEN NoneStr ELSE IF Truthy(arg) THEN arg ELSE "poi"

\* ------------------------------------------------- test_vtzero_negative.py
\* max_coord = (1 << zoom) - 1 ; flip_y = max_coord - y   (the probe's copy)
ProbeFlipY(zoom, y) == (Shl1(zoom) - 1) - y

\* if tile_data[:2] == b'\x1f\x8b': tile_data = gzip.decompress(tile_data)
UnwrapProbe(blob) ==
    IF Prefix(blob, 2) = GzipMagic
    THEN GzipDecompress(blob)
    ELSE [ok |-> TRUE, data |-> blob]

\* Mutant of ProbeRejects: the check looks at the first byte.
ProbeRejects_FirstByte(data) == Prefix(data, 1) # <<LayerTag>>

\* if tile_data[:0] != b'\x1a': "Not a valid MVT tile (wrong magic)"
ProbeRejects(data) == Prefix(data, 0) # <<LayerTag>>

\* The scan of the decoded tile for a Point with a negative coordinate.
HasNegative(tile) ==
    \E i \in 1..Len(tile) : \E j \in 1..Len(tile[i].features) :
        LET feat == tile[i].features[j]
        IN  /\ feat.type = "Point"
            /\ Len(feat.coordinates) >= 2
            /\ (feat.coordinates[1] < 0 \/ feat.coordinates[2] < 0)

\* check_tile_for_negative_coords(mbtiles_path, zoom, x, y): [status, queried, query]
check_tile_for_negative_coords(store, rows, z, tx, ty) ==
    LET q == <<z, tx, ProbeFlipY(z, ty)>>
        res(st, asked) == [status |-> st, queried |-> asked,
                           query |-> IF asked THEN q ELSE <<0, 0, 0>>]
    IN  IF ShiftRaises(z) THEN res("raise_shift", FALSE)
        ELSE IF ~store THEN res("raise_store", TRUE)
        ELSE IF q \notin DOMAIN rows THEN res("not_found", TRUE)
        ELSE LET u == UnwrapProbe(rows[q])
             IN  IF ~u.ok THEN res("raise_gzip", TRUE)
                 ELSE IF ProbeRejects(u.data) THEN res("wrong_magic", TRUE)
                 ELSE LET t == decode(u.data)
                      IN  IF ~t.ok THEN res("decode_error", TRUE)
                          ELSE IF HasNegative(t.layers) THEN res("negative", TRUE)
                          ELSE res("no_negative", TRUE)

\* ---------------------------------------------------- inspect_tile_http.py
\* tile_data = response.content; gzip check and decompression (inspect_tile)
UnwrapInspect(blob) ==
    IF Prefix(blob, 2) = GzipMagic
    THEN GzipDecompress(blob)
    ELSE [ok |-> TRUE, data |-> blob]

\* the same step in compare_tiles
UnwrapCompare(blob) ==
    IF Prefix(blob, 2) = GzipMagic
    THEN GzipDecompress(blob)
    ELSE [ok |-> TRUE, data |-> blob]

\* str(feat_id) == str(target_id) for some feature of some layer
TargetInTile(tile, target) ==
    \E i \in 1..Len(tile) : \E j \in 1..Len(tile[i].features) :
        /\ tile[i].features[j].has_id
        /\ tile[i].features[j].id = target

\* inspect_tile(url, target_id): the line it reports (note), how the fetch and
\* envelope step ended (status) and the unwrapped bytes (data).
inspect_tile(resp, target) ==
    IF ~resp.ok THEN [note |-> "fetch_error", status |-> "raise_fetch", data |-> <<>>]
    ELSE LET u == UnwrapInspect(resp.content)
         IN  IF ~u.ok THEN [note |-> "error", status |-> "raise_gzip", data |-> <<>>]
             ELSE LET t == decode(u.data)
                  IN  [note |-> IF ~t.ok THEN "decode_error"
                                ELSE IF t.layers = <<>> THEN "empty_error"
                                ELSE IF TargetInTile(t.layers, target) THEN "found"
                                ELSE "not_found",
                       status |-> "data", data |-> u.data]

\* One iteration of the fetch loop of compare_tiles: results[url] is the
\* decoded tile, or None (ok = FALSE) after any exception.
compare_fetch(resp) ==
    IF ~resp.ok THEN [ok |-> FALSE, tile |-> <<>>, status |-> "raise_fetch", data |-> <<>>]
    ELSE LET u == UnwrapCompare(resp.content)
         IN  IF ~u.ok THEN [ok |-> FALSE, tile |-> <<>>, status |-> "raise_gzip", data |-> <<>>]
             ELSE LET t == decode(u.data)
                  IN  [ok |-> t.ok, tile |-> t.layers, status |-> "data", data |-> u.data]

\* ------------------------------------------------------------------ state
VARIABLES
    prog,         \* which script runs
    zoom, x, y,   \* the tile asked for (args.tile; the probe's arguments)
    neighbors,    \* args.neighbors
    all_layers,   \* args.all_layers
    layer_arg,    \* args.layer (NoneStr when not given)
    target_ids,   \* set(args.target); {TARGET_ID} for the HTTP script
    store_ok,     \* FALSE: the archive file has no readable tiles table
    archive,      \* the tiles table: <<zoom_level, tile_column, tile_row>> -> tile_data
    responses,    \* what the tile server answers, per URL
    pc,           \* position of the script
    layer_name,   \* main's layer_name
    tiles,        \* main's tiles
    idx,          \* next element of the running loop
    last,         \* read_tile/find locals of the last loop iteration
    all_results,  \* search_all_tiles' all_results
    queries,      \* the queries issued to the archive, in order
    out,          \* the per-tile lines printed
    err,          \* the exception that ended the script, "" if none
    cmp_results   \* compare_tiles' results, per URL

vars == <<prog, zoom, x, y, neighbors, all_layers, layer_arg, target_ids, store_ok,
          archive, responses, pc, layer_name, tiles, idx, last, all_results,
          queries, out, err, cmp_results>>

\* ------------------------------------------------------------ tile contents
\* poi: Point id 1 at (5, 3)
TilePoi == EncodeLayer(1, EncodeFeature(TRUE, 1, 1, 5, 3))

\* poi: Point id 1, LineString id 1, Point id 1 again, Point without id
TileDup ==
    EncodeLayer(1, EncodeFeature(TRUE, 1, 1, 1, 1) \o EncodeFeature(TRUE, 1, 2, 0, 0)
                   \o EncodeFeature(TRUE, 1, 1, 2, 2) \o EncodeFeature(FALSE, 0, 1, 4, 4))

\* place: Point id 1 at (-1, 6), Polygon id 2; poi: Point id 2 at (7, 7)
TileMulti ==
    EncodeLayer(2, EncodeFeature(TRUE, 1, 1, -1, 6) \o EncodeFeature(TRUE, 2, 3, 0, 0))
    \o EncodeLayer(1, EncodeFeature(TRUE, 2, 1, 7, 7))

\* a layer message cut short
Truncated == <<LayerTag, 5, 1>>

\* gzip magic followed by a stream that does not decompress
CorruptGzip == GzipMagic \o <<LayerTag>>

ArchiveBlobs ==
    {TilePoi, TileDup, GzipCompress(TileMulti), Truncated, <<>>, GzipCompress(<<>>),
     CorruptGzip, <<31>>}

HttpBlobs ==
    ArchiveBlobs \cup {TileMulti, GzipCompress(TilePoi), GzipCompress(Truncated),
                       GzipMagic, <<139, 31>>, <<139>>, <<LayerTag>>}

TargetSets == {{1}, {1, 2}}

LayerArgs == {NoneStr, "", "place", "road"}

\* The zoom levels of the runs over a populated archive: the two levels
\* that a single 3x3 window covers whole.
ScanZooms == {0, 1}

Progs == {"check_mbtiles", "inspect_tile_http", "test_vtzero_negative"}

\* ------------------------------------------------------------------- Init
RowsOf(z) == {<<z, c, r>> : c \in 0..(Shl1(z) - 1), r \in 0..(Shl1(z) - 1)}

\* The archives of zoom z with at most n rows, each holding one of blobs.
Archives(z, blobs, n) ==
    UNION {[S -> blobs] : S \in {T \in SUBSET RowsOf(z) : Cardinality(T) <= n}}

\* The archive that holds blob under every row of zoom z.
FullArchive(z, blob) == [k \in RowsOf(z) |-> blob]

NoLast == [tile |-> <<0, 0, 0>>, status |-> "", raw |-> <<>>, data |-> <<>>,
           searched |-> FALSE, decode_error |-> FALSE, results |-> EmptyMap]

InitLocals ==
    /\ layer_name = NoneStr
    /\ tiles = <<>>
    /\ idx = 1
    /\ last = NoLast
    /\ all_results = EmptyMap
    /\ queries = <<>>
    /\ out = <<>>
    /\ err = ""
    /\ cmp_results = <<>>

InitHttp ==
    /\ prog = "inspect_tile_http"
    /\ pc = "compare"
    /\ zoom = 0 /\ x = 0 /\ y = 0
    /\ neighbors = FALSE /\ all_layers = TRUE /\ layer_arg = NoneStr
    /\ target_ids \in {{1}, {2}}
    /\ store_ok = TRUE /\ archive = EmptyMap
    /\ responses \in UNION {[1..n -> {[ok |-> TRUE, content |-> b] : b \in HttpBlobs}
                                     \cup {[ok |-> FALSE, content |-> <<>>]}]
                            : n \in 1..MaxUrls}
    /\ InitLocals

\* The archive-reading scripts over a populated archive, the tile in range.
InitScan ==
    /\ prog \in {"check_mbtiles", "test_vtzero_negative"}
    /\ pc = IF prog = "check_mbtiles" THEN "main" ELSE "probe"
    /\ zoom \in ScanZooms
    /\ x \in 0..(Shl1(zoom) - 1)
    /\ y \in 0..(Shl1(zoom) - 1)
    /\ IF prog = "check_mbtiles"
       THEN /\ neighbors \in BOOLEAN
            /\ \/ all_layers = TRUE /\ layer_arg = NoneStr
               \/ all_layers = FALSE /\ layer_arg \in LayerArgs
            /\ target_ids \in TargetSets
       ELSE neighbors = FALSE /\ all_layers = TRUE /\ layer_arg = NoneStr
            /\ target_ids = {1}
    /\ \/ store_ok = TRUE /\ archive \in Archives(zoom, ArchiveBlobs, MaxPresent)
       \/ store_ok = FALSE /\ archive = EmptyMap
    /\ responses = <<>>
    /\ InitLocals

\* The archive-reading scripts over any tile key, in range or not, and an
\* archive that is empty or full.
InitAddr ==
    /\ prog \in {"check_mbtiles", "test_vtzero_negative"}
    /\ pc = IF prog = "check_mbtiles" THEN "main" ELSE "probe"
    /\ zoom \in (-1)..MaxZoom
    /\ x \in (-1)..Shl1(zoom)
    /\ y \in (-1)..Shl1(zoom)
    /\ IF prog = "check_mbtiles"
       THEN neighbors \in BOOLEAN /\ all_layers \in BOOLEAN
       ELSE neighbors = FALSE /\ all_layers = TRUE
    /\ layer_arg = NoneStr
    /\ target_ids = {1}
    /\ \/ store_ok = TRUE /\ archive = EmptyMap
       \/ store_ok = TRUE /\ zoom >= 0 /\ archive = FullArchive(zoom, TilePoi)
       \/ store_ok = FALSE /\ archive = EmptyMap
    /\ responses = <<>>
    /\ InitLocals

Init == InitScan \/ InitHttp

InitAddressing == InitAddr \/ InitHttp

\* ---------------------------------------------------------------- actions
\* main(), from the parsed arguments to the call of search_all_tiles.
Main ==
    /\ prog = "check_mbtiles" /\ pc = "main"
    /\ layer_name' = ResolveLayer(all_layers, layer_arg)
    /\ IF neighbors /\ ShiftRaises(zoom)
       THEN pc' = "crashed" /\ err' = "raise_shift" /\ tiles' = <<>>
       ELSE /\ pc' = "scan" /\ err' = ""
            /\ tiles' = IF neighbors THEN get_neighbor_tiles(zoom, x, y)
                        ELSE << <<zoom, x, y>> >>
    /\ idx' = 1
    /\ all_results' = EmptyMap
    /\ UNCHANGED <<prog, zoom, x, y, neighbors, all_layers, layer_arg, target_ids,
                   store_ok, archive, responses, last, queries, out, cmp_results>>

\* One iteration of `for z, x, y in tiles` in search_all_tiles.
ScanTile ==
    /\ prog = "check_mbtiles" /\ pc = "scan" /\ idx <= Len(tiles)
    /\ LET t == tiles[idx]
           r == read_tile_from_mbtiles(store_ok, archive, t[1], t[2], t[3])
           truthy == r.status = "data" /\ r.data # <<>>
           f == IF truthy THEN find_targets_in_tile(r.data, target_ids, layer_name)
                ELSE [raised |-> FALSE, decode_error |-> FALSE, results |-> EmptyMap]
           raised == r.status \in {"raise_shift", "raise_store", "raise_gzip"} \/ f.raised
       IN  /\ queries' = IF r.queried THEN Append(queries, r.query) ELSE queries
           /\ last' = [tile |-> t, status |-> r.status, raw |-> r.raw, data |-> r.data,
                       searched |-> truthy, decode_error |-> f.decode_error,
                       results |-> f.results]
           /\ IF raised
              THEN /\ pc' = "crashed"
                   /\ err' = IF f.raised THEN "raise_decode" ELSE r.status
                   /\ UNCHANGED <<idx, all_results, out>>
              ELSE /\ pc' = "scan" /\ err' = ""
                   /\ idx' = idx + 1
                   /\ all_results' = IF truthy /\ DOMAIN f.results # {}
                                     THEN Put(all_results, t, f.results)
                                     ELSE all_results
                   /\ out' = IF r.status = "none"
                             THEN Append(out, [at |-> t, note |-> "not_found"])
                             ELSE IF f.decode_error
                             THEN Append(out, [at |-> t, note |-> "decode_error"])
                             ELSE out
    /\ UNCHANGED <<prog, zoom, x, y, neighbors, all_layers, layer_arg, target_ids,
                   store_ok, archive, responses, layer_name, tiles, cmp_results>>

\* return all_results
SearchReturn ==
    /\ prog = "check_mbtiles" /\ pc = "scan" /\ idx > Len(tiles)
    /\ pc' = "done"
    /\ UNCHANGED <<prog, zoom, x, y, neighbors, all_layers, layer_arg, target_ids,
                   store_ok, archive, responses, layer_name, tiles, idx, last,
                   all_results, queries, out, err, cmp_results>>

\* check_tile_for_negative_coords(path, zoom, x, y), the whole call.
CheckNegative ==
    /\ prog = "test_vtzero_negative" /\ pc = "probe"
    /\ LET r == check_tile_for_negative_coords(store_ok, archive, zoom, x, y)
           raised == r.status \in {"raise_shift", "raise_store", "raise_gzip"}
       IN  /\ queries' = IF r.queried THEN Append(queries, r.query) ELSE queries
           /\ pc' = IF raised THEN "crashed" ELSE "done"
           /\ err' = IF raised THEN r.status ELSE ""
           /\ out' = IF raised THEN out
                     ELSE Append(out, [at |-> <<zoom, x, y>>, note |-> r.status])
    /\ UNCHANGED <<prog, zoom, x, y, neighbors, all_layers, layer_arg, target_ids,
                   store_ok, archive, responses, layer_name, tiles, idx, last,
                   all_results, cmp_results>>

\* One iteration of `for url in urls` in compare_tiles.
CompareFetch ==
    /\ prog = "inspect_tile_http" /\ pc = "compare" /\ idx <= Len(responses)
    /\ LET c == compare_fetch(responses[idx])
       IN  /\ cmp_results' = Append(cmp_results, [ok |-> c.ok, tile |-> c.tile])
           /\ last' = [NoLast EXCEPT !.tile = <<idx>>,
                                     !.status = c.status,
                                     !.raw = responses[idx].content,
                                     !.data = c.data]
    /\ idx' = idx + 1
    /\ UNCHANGED <<prog, zoom, x, y, neighbors, all_layers, layer_arg, target_ids,
                   store_ok, archive, responses, pc, layer_name, tiles, all_results,
                   queries, out, err>>

\* The comparison report of compare_tiles, then the script's inspection loop.
CompareReport ==
    /\ prog = "inspect_tile_http" /\ pc = "compare" /\ idx > Len(responses)
    /\ out' = out \o [i \in 1..Len(cmp_results) |->
                        [at |-> <<i>>,
                         note |-> IF ~cmp_results[i].ok THEN "FAILED"
                                  ELSE IF \E t \in target_ids :
                                              TargetInTile(cmp_results[i].tile, t)
                                  THEN "found" ELSE "not_found"]]
    /\ pc' = "inspect"
    /\ idx' = 1
    /\ UNCHANGED <<prog, zoom, x, y, neighbors, all_layers, layer_arg, target_ids,
                   store_ok, archive, responses, layer_name, tiles, last, all_results,
                   queries, err, cmp_results>>

\* inspect_tile(url, TARGET_ID, SEARCH_NAME) for the next tile of the script.
InspectTile ==
    /\ prog = "inspect_tile_http" /\ pc = "inspect" /\ idx <= Len(responses)
    /\ LET r == inspect_tile(responses[idx], CHOOSE t \in target_ids : TRUE)
       IN  /\ out' = Append(out, [at |-> <<idx>>, note |-> r.note])
           /\ last' = [NoLast EXCEPT !.tile = <<idx>>,
                                     !.status = r.status,
                                     !.raw = responses[idx].content,
                                     !.data = r.data]
    /\ idx' = idx + 1
    /\ pc' = IF idx = Len(responses) THEN "done" ELSE "inspect"
    /\ UNCHANGED <<prog, zoom, x, y, neighbors, all_layers, layer_arg, target_ids,
                   store_ok, archive, responses, layer_name, tiles, all_results,
                   queries, err, cmp_results>>

Next ==
    \/ Main
    \/ ScanTile
    \/ SearchReturn
    \/ CheckNegative
    \/ CompareFetch
    \/ CompareReport
    \/ InspectTile

\* Runs over a populated archive (zoom in ScanZooms) and the HTTP script.
Spec == Init /\ [][Next]_vars

\* Runs over every tile key, in range or not (zoom up to MaxZoom).
SpecAddr == InitAddressing /\ [][Next]_vars

\* ================================================================= claims
\* The TMS convention of the archive, stated apart from the scripts: the
\* row that holds web tile t = <<z, x, y>>.
StoredKey(t) == <<t[1], t[2], 2^(t[1]) - 1 - t[3]>>

HasMagic(b) == Len(b) >= 2 /\ b[1] = 31 /\ b[2] = 139

RanScan == prog = "check_mbtiles" /\ pc \in {"scan", "done", "crashed"}

\* The query q is the one the TMS convention asks for web tile t, and for a
\* row in range the flip maps back.
LookupFor(t, q) ==
    /\ q = StoredKey(t)
    /\ (0 <= t[3] /\ t[3] < 2^(t[1])) =>
          /\ 0 <= q[3] /\ q[3] < 2^(t[1])
          /\ FlipY(t[1], q[3]) = t[3]
          /\ ProbeFlipY(t[1], q[3]) = t[3]

\* C1: every archive lookup issued for a web tile (zoom, x, y), by
\* read_tile_from_mbtiles and by check_tile_for_negative_coords, uses
\* zoom_level = zoom, tile_column = x, tile_row = (1 << zoom) - 1 - y; for
\* 0 <= y < 2^zoom the row is again in [0, 2^zoom) and flipping it once more
\* gives y back.  The i-th lookup of a scan is the one for the i-th tile,
\* and a finished scan has issued one lookup per tile.
C1_Lookup ==
    /\ prog = "check_mbtiles" =>
          /\ Len(queries) <= Len(tiles)
          /\ \A i \in 1..Len(queries) : LookupFor(tiles[i], queries[i])
          /\ pc = "done" => Len(queries) = Len(tiles)
    /\ prog = "test_vtzero_negative" =>
          /\ \A i \in 1..Len(queries) : LookupFor(<<zoom, x, y>>, queries[i])
          /\ pc = "done" => Len(queries) = 1

C1_Witness ==
    /\ prog = "check_mbtiles" /\ pc = "done" /\ zoom >= 2
    /\ Len(queries) = 9
    /\ \E i \in 1..Len(queries) : queries[i][3] # tiles[i][3]

\* The 3x3 window around the center, and its part inside the zoom's range.
Window == {<<zoom, x + dx, y + dy>> : dx \in {-1, 0, 1}, dy \in {-1, 0, 1}}

WindowInRange ==
    {t \in Window : 0 <= t[2] /\ t[2] < 2^zoom /\ 0 <= t[3] /\ t[3] < 2^zoom}

Distinct(seq) == \A i, j \in 1..Len(seq) : i # j => seq[i] # seq[j]

\* C2: get_neighbor_tiles(zoom, x, y) returns exactly the tiles of the 3x3
\* window whose column and row are in [0, 2^zoom): none out of range, none
\* missing, none twice, and the center whenever it is in range.
C2_Neighbors ==
    (RanScan /\ neighbors /\ zoom >= 0) =>
        /\ {tiles[i] : i \in 1..Len(tiles)} = WindowInRange
        /\ Distinct(tiles)
        /\ (<<zoom, x, y>> \in WindowInRange) =>
               \E i \in 1..Len(tiles) : tiles[i] = <<zoom, x, y>>

C2_Witness ==
    /\ RanScan /\ neighbors /\ zoom >= 2
    /\ x = 0 /\ y = 1
    /\ Len(tiles) = 6

Interior == 0 < x /\ x < 2^zoom - 1 /\ 0 < y /\ y < 2^zoom - 1

NineWithCenter ==
    /\ Len(tiles) = 9
    /\ Distinct(tiles)
    /\ \E i \in 1..Len(tiles) : tiles[i] = <<zoom, x, y>>

\* C3 as stated: 9 distinct keys with the center for an interior center, and
\* exactly 4 keys for the corner x = 0, y = 0 at every zoom level.
C3_Original ==
    (RanScan /\ neighbors /\ zoom >= 0) =>
        /\ Interior => NineWithCenter
        /\ (x = 0 /\ y = 0) => Len(tiles) = 4

\* C3 amended: 9 distinct keys with the center for an interior center; for
\* the corner x = 0, y = 0 exactly 4 keys at every zoom level >= 1, and 1
\* key (the tile itself) at zoom 0, where the range holds a single tile.
C3_Amended ==
    (RanScan /\ neighbors /\ zoom >= 0) =>
        /\ Interior => NineWithCenter
        /\ (x = 0 /\ y = 0) => Len(tiles) = IF zoom = 0 THEN 1 ELSE 4

C3_Witness ==
    /\ RanScan /\ neighbors /\ zoom >= 1
    /\ x = 0 /\ y = 0
    /\ Len(tiles) = 4

\* C4: the envelope step, on the archive path and on both HTTP paths,
\* returns the payload that was gzip-wrapped when the blob starts with
\* 0x1F 0x8B and decompresses, and returns the blob itself in every other
\* case, blobs shorter than two bytes included.
C4_Envelope ==
    (last.status \in {"data", "raise_gzip"}) =>
        /\ \A p \in HttpBlobs :
              last.raw = GzipCompress(p) => (last.status = "data" /\ last.data = p)
        /\ (HasMagic(last.raw) /\ last.status = "data") =>
              last.raw = GzipCompress(last.data)
        /\ ~HasMagic(last.raw) => (last.status = "data" /\ last.data = last.raw)

C4_Witness ==
    /\ prog = "check_mbtiles"
    /\ last.status = "data"
    /\ HasMagic(last.raw)
    /\ last.data = TileMulti

\* ---- the locator, seen on the tile of the last iteration of the scan
\* The last iteration handed a payload to find_targets_in_tile and it decoded.
Located == prog = "check_mbtiles" /\ last.searched /\ ~last.decode_error

LastTile == decode(last.data).layers

\* The layers the filter selects: the named one, or every layer when absent.
Selected(ln) == layer_name = NoneStr \/ ln = layer_name

IdMatch(feat) == feat.has_id /\ feat.id \in target_ids

\* The features returned under layer ln, in order.
ReturnedFeatures(ln) ==
    IF ln \in DOMAIN last.results
    THEN [k \in 1..Len(last.results[ln]) |-> last.results[ln][k][1]]
    ELSE <<>>

Returned(ln, feat) ==
    \E k \in 1..Len(ReturnedFeatures(ln)) : ReturnedFeatures(ln)[k] = feat

\* C5 as stated: a feature of a searched layer is returned iff it has an id
\* and the id is in target_ids.
C5_Claim ==
    Located =>
        /\ \A ln \in DOMAIN last.results :
              \A k \in 1..Len(last.results[ln]) : IdMatch(last.results[ln][k][1])
        /\ \A i \in 1..Len(LastTile) :
              Selected(LastTile[i].name) =>
                  \A j \in 1..Len(LastTile[i].features) :
                      IdMatch(LastTile[i].features[j]) =>
                          Returned(LastTile[i].name, LastTile[i].features[j])

\* C6 as stated: only Point matches carry a coordinate pair, and a feature
\* whose id is in target_ids but whose geometry is not a Point is still in
\* the result of its layer.
C6_Claim ==
    Located =>
        /\ \A ln \in DOMAIN last.results :
              \A k \in 1..Len(last.results[ln]) :
                  Len(last.results[ln][k][2]) = 2 =>
                      last.results[ln][k][1].type = "Point"
        /\ \A i \in 1..Len(LastTile) :
              Selected(LastTile[i].name) =>
                  \A j \in 1..Len(LastTile[i].features) :
                      (/\ IdMatch(LastTile[i].features[j])
                       /\ LastTile[i].features[j].type # "Point") =>
                          Returned(LastTile[i].name, LastTile[i].features[j])

\* C7 as stated: the result list of a searched layer is the layer's
\* features whose id is a target, each once, in the layer's order.
C7_Claim ==
    Located =>
        \A i \in 1..Len(LastTile) :
            Selected(LastTile[i].name) =>
                ReturnedFeatures(LastTile[i].name)
                    = SelectSeq(LastTile[i].features, IdMatch)

PointMatch(feat) == IdMatch(feat) /\ feat.type = "Point"

\* C8: the filter main passes is None with --all-layers and the named layer
\* (default 'poi') otherwise.  With a filter every key of the result is that
\* layer and every returned feature is one of its features; a filter naming
\* a layer the tile lacks gives an empty result and no exception.  Without
\* a filter every layer of the tile is searched: each Point feature with a
\* target id, of whatever layer, is returned under its layer.
C8_LayerFilter ==
    /\ RanScan =>
          layer_name = IF all_layers THEN NoneStr
                       ELSE IF layer_arg \in {NoneStr, ""} THEN "poi" ELSE layer_arg
    /\ Located =>
          /\ pc # "crashed"
          /\ layer_name # NoneStr => DOMAIN last.results \subseteq {layer_name}
          /\ (\A i \in 1..Len(LastTile) : ~Selected(LastTile[i].name)) =>
                DOMAIN last.results = {}
          /\ \A ln \in DOMAIN last.results :
                \E i \in 1..Len(LastTile) :
                    /\ LastTile[i].name = ln
                    /\ \A k \in 1..Len(last.results[ln]) :
                          \E j \in 1..Len(LastTile[i].features) :
                              LastTile[i].features[j] = last.results[ln][k][1]
          /\ \A i \in 1..Len(LastTile) :
                Selected(LastTile[i].name) =>
                    \A j \in 1..Len(LastTile[i].features) :
                        PointMatch(LastTile[i].features[j]) =>
                            Returned(LastTile[i].name, LastTile[i].features[j])

C8_Witness ==
    /\ Located
    /\ layer_name = "road"
    /\ \E i \in 1..Len(LastTile) : \E j \in 1..Len(LastTile[i].features) :
          PointMatch(LastTile[i].features[j])
    /\ DOMAIN last.results = {}

\* ---- the scan
Present(t) == StoredKey(t) \in DOMAIN archive

\* What the locator finds in the stored tile t.
FoundIn(t) ==
    find_targets_in_tile(UnwrapArchive(archive[StoredKey(t)]).data,
                         target_ids, layer_name).results

\* The aggregate of a scan over the tiles ts, every one of them present.
AggregateOf(ts) ==
    [t \in {ts[i] : i \in {k \in 1..Len(ts) : DOMAIN FoundIn(ts[k]) # {}}}
        |-> FoundIn(t)]

\* C9: a tile whose row is absent raises nothing and adds nothing, and the
\* scan goes on: the scan stops on an exception only at a tile that is
\* present (or with an unreadable store), an absent tile is never a key of
\* the aggregate, and the aggregate returned equals the aggregate of a scan
\* over the present tiles of the list alone, one lookup issued per tile.
C9_AbsentTile ==
    /\ (RanScan /\ last.status = "none") =>
          /\ pc # "crashed" /\ err = ""
          /\ ~last.searched
    /\ (RanScan /\ pc = "crashed" /\ store_ok /\ zoom >= 0) => Present(tiles[idx])
    /\ RanScan => \A t \in DOMAIN all_results : Present(t)
    /\ (prog = "check_mbtiles" /\ pc = "done") =>
          /\ Len(queries) = Len(tiles)
          /\ \A i \in 1..Len(tiles) : queries[i] = StoredKey(tiles[i])
          /\ all_results = AggregateOf(SelectSeq(tiles, Present))

C9_Witness ==
    /\ prog = "check_mbtiles" /\ pc = "done"
    /\ \E i, j \in 1..Len(tiles) :
          /\ i < j
          /\ ~Present(tiles[i])
          /\ tiles[j] \in DOMAIN all_results

\* The stored tile t unwraps to a non-empty payload that does not decode.
DecodeFails(t) ==
    /\ Present(t)
    /\ UnwrapArchive(archive[StoredKey(t)]).ok
    /\ UnwrapArchive(archive[StoredKey(t)]).data # <<>>
    /\ ~decode(UnwrapArchive(archive[StoredKey(t)]).data).ok

\* C10: a decode failure is printed for its tile and does not end the scan:
\* the script never stops on it, the iteration after it goes on with the
\* next tile, and the aggregate returned holds the matches of every other
\* tile of the list.
C10_DecodeFailure ==
    /\ (RanScan /\ last.decode_error) =>
          /\ pc # "crashed" /\ err = ""
          /\ Len(out) >= 1
          /\ out[Len(out)] = [at |-> last.tile, note |-> "decode_error"]
          /\ tiles[idx - 1] = last.tile
    /\ (prog = "check_mbtiles" /\ pc = "done") =>
          /\ \A i \in 1..Len(tiles) :
                DecodeFails(tiles[i]) <=>
                    (\E k \in 1..Len(out) :
                        out[k] = [at |-> tiles[i], note |-> "decode_error"])
          /\ \A i \in 1..Len(tiles) :
                (Present(tiles[i]) /\ DOMAIN FoundIn(tiles[i]) # {}) =>
                    /\ tiles[i] \in DOMAIN all_results
                    /\ all_results[tiles[i]] = FoundIn(tiles[i])

C10_Witness ==
    /\ prog = "check_mbtiles" /\ pc = "done"
    /\ \E i, j \in 1..Len(tiles) :
          /\ i < j
          /\ DecodeFails(tiles[i])
          /\ tiles[j] \in DOMAIN all_results

\* The stored tile t starts with the gzip magic and does not decompress.
EnvelopeFails(t) ==
    /\ Present(t)
    /\ HasMagic(archive[StoredKey(t)])
    /\ \A p \in HttpBlobs : archive[StoredKey(t)] # GzipCompress(p)

\* C11 as stated: a store access failure or an envelope failure for one tile
\* does not end the scan: the script does not stop on it, and a list that
\* holds such a tile is still scanned to its end, the aggregate returned
\* holding the matches of the other tiles.
C11_Claim ==
    /\ (RanScan /\ last.status \in {"raise_gzip", "raise_store"}) =>
          (pc # "crashed" /\ err = "")
    /\ (RanScan /\ zoom >= 0 /\ idx <= Len(tiles)
          /\ \E i \in 1..idx : EnvelopeFails(tiles[i]) \/ ~store_ok) =>
          pc = "scan"

\* The lines printed for tile t during the scan.
NotesOf(t) == {out[k].note : k \in {n \in 1..Len(out) : out[n].at = t}}

\* The stored tile t unwraps and decodes, and the locator finds nothing in it.
NoMatchIn(t) ==
    /\ Present(t)
    /\ UnwrapArchive(archive[StoredKey(t)]).ok
    /\ decode(UnwrapArchive(archive[StoredKey(t)]).data).ok
    /\ DOMAIN FoundIn(t) = {}

\* C12 as stated: a tile that is stored but fails to decode is recorded in
\* the aggregate returned, so that the aggregate differs from the one of a
\* scan where the tile is absent or holds no match.
C12_Original ==
    (prog = "check_mbtiles" /\ pc = "done") =>
        \A i \in 1..Len(tiles) :
            DecodeFails(tiles[i]) => tiles[i] \in DOMAIN all_results

\* C12 amended: the aggregate returned holds no entry for a tile that fails
\* to decode, exactly as for an absent tile and for a tile without a match;
\* the failure is reported only by the line printed during that tile's
\* iteration ('ERROR decoding tile'), which tells it from an absent tile
\* ('Tile not found in mbtiles') and from a tile without a match (no line).
C12_Amended ==
    (prog = "check_mbtiles" /\ pc = "done") =>
        \A i \in 1..Len(tiles) :
            /\ DecodeFails(tiles[i]) =>
                  /\ tiles[i] \notin DOMAIN all_results
                  /\ NotesOf(tiles[i]) = {"decode_error"}
            /\ ~Present(tiles[i]) =>
                  /\ tiles[i] \notin DOMAIN all_results
                  /\ NotesOf(tiles[i]) = {"not_found"}
            /\ NoMatchIn(tiles[i]) =>
                  /\ tiles[i] \notin DOMAIN all_results
                  /\ NotesOf(tiles[i]) = {}

C12_Witness ==
    /\ prog = "check_mbtiles" /\ pc = "done"
    /\ \E i, j \in 1..Len(tiles) :
          /\ DecodeFails(tiles[i])
          /\ ~Present(tiles[j])
          /\ all_results = EmptyMap

\* The decoded layers of the stored tile t.
StoredTile(t) == decode(UnwrapArchive(archive[StoredKey(t)]).data).layers

\* The ids of the features the aggregate holds under tile t.
IdsUnder(t) ==
    UNION {{all_results[t][ln][k][1].id : k \in 1..Len(all_results[t][ln])} :
              ln \in DOMAIN all_results[t]}

\* The target ids that tile t holds as a Point feature of a selected layer.
PointIdsIn(t) ==
    IF ~Present(t) THEN {}
    ELSE {id \in target_ids :
            \E i \in 1..Len(StoredTile(t)) :
                /\ Selected(StoredTile(t)[i].name)
                /\ \E j \in 1..Len(StoredTile(t)[i].features) :
                      /\ PointMatch(StoredTile(t)[i].features[j])
                      /\ StoredTile(t)[i].features[j].id = id}

\* C13: the aggregate is keyed by tile and not deduplicated across tiles:
\* every key is a tile of the list that was scanned, every match under a
\* key is a feature of that tile's own layer of that name, and at the end
\* every tile of the list holding a target id as a Point has its key with
\* that id under it, also when another tile holds the same id.
C13_KeyedByTile ==
    RanScan =>
        /\ \A t \in DOMAIN all_results :
              /\ \E i \in 1..Len(tiles) : i < idx /\ tiles[i] = t
              /\ Present(t)
              /\ \A ln \in DOMAIN all_results[t] :
                    \A k \in 1..Len(all_results[t][ln]) :
                        \E i \in 1..Len(StoredTile(t)) :
                            /\ StoredTile(t)[i].name = ln
                            /\ \E j \in 1..Len(StoredTile(t)[i].features) :
                                  StoredTile(t)[i].features[j]
                                      = all_results[t][ln][k][1]
        /\ pc = "done" =>
              \A i \in 1..Len(tiles) :
                  PointIdsIn(tiles[i]) # {} =>
                      /\ tiles[i] \in DOMAIN all_results
                      /\ IdsUnder(tiles[i]) = PointIdsIn(tiles[i])

C13_Witness ==
    /\ prog = "check_mbtiles" /\ pc = "done"
    /\ \E t1, t2 \in DOMAIN all_results :
          /\ t1 # t2
          /\ IdsUnder(t1) \cap IdsUnder(t2) # {}
          /\ all_results[t1] # all_results[t2]

\* b is an empty tile as the producer ships it: a payload that decodes to
\* no layer, bare or inside the gzip envelope.
EmptyBody(b) ==
    \E p \in HttpBlobs :
        /\ decode(p).ok /\ decode(p).layers = <<>>
        /\ b \in {p, GzipCompress(p)}

\* The lines that inspect_tile printed, after the comparison report.
InspectLines ==
    IF prog = "inspect_tile_http" /\ pc \in {"inspect", "done"}
    THEN {k \in 1..Len(out) : k > Len(cmp_results)}
    ELSE {}

\* C14 as stated: an empty tile is a successful decode and never an error:
\* a finished scan has printed nothing about an empty stored tile and holds
\* no matches for it, and inspect_tile prints no error line for an answer
\* whose body is an empty tile.
C14_Claim ==
    /\ (prog = "check_mbtiles" /\ pc = "done") =>
          \A i \in 1..Len(tiles) :
              (Present(tiles[i]) /\ EmptyBody(archive[StoredKey(tiles[i])])) =>
                  /\ NotesOf(tiles[i]) = {}
                  /\ tiles[i] \notin DOMAIN all_results
    /\ \A k \in InspectLines :
          (responses[out[k].at[1]].ok
              /\ EmptyBody(responses[out[k].at[1]].content)) =>
              out[k].note \notin {"empty_error", "decode_error", "error", "fetch_error"}

\* The tile key t is valid: zoom not negative, column and row in [0, 2^zoom).
ValidKey(t) ==
    /\ t[1] >= 0
    /\ 0 <= t[2] /\ t[2] < 2^(t[1])
    /\ 0 <= t[3] /\ t[3] < 2^(t[1])

\* C15 as stated: a tile key out of range is fatal to its request and
\* reported as InvalidZoom/InvalidCoordinate: no archive query is issued for
\* it, no "not found" line is printed for it, and the request of an invalid
\* key ends with that error.
C15_Claim ==
    prog = "check_mbtiles" =>
        /\ \A i \in 1..Len(queries) : ValidKey(tiles[i])
        /\ \A k \in 1..Len(out) :
              out[k].note = "not_found" => ValidKey(out[k].at)
        /\ (RanScan /\ \E i \in 1..Len(tiles) : i < idx /\ ~ValidKey(tiles[i])) =>
              err \in {"InvalidZoom", "InvalidCoordinate"}

\* The probe has returned for a tile that the archive holds and whose
\* envelope, if any, opened.
ProbeUnwrapped ==
    /\ prog = "test_vtzero_negative" /\ pc = "done"
    /\ Present(<<zoom, x, y>>)
    /\ UnwrapArchive(archive[StoredKey(<<zoom, x, y>>)]).ok

ProbePayload == UnwrapArchive(archive[StoredKey(<<zoom, x, y>>)]).data

====
